---- MODULE Spec2Model ----
(***************************************************************************)
(* The operation/team lifecycle manager of src/operation/operation.py: the  *)
(* Operation cog of one guild.  Every command handler is a coroutine; a     *)
(* handler runs without interruption from one await to the next, so each    *)
(* action below is the code between two suspension points of one handler.   *)
(* Collaborator calls (channel creation, permission writes, sends) are the  *)
(* suspension points; their effect on the platform is outside this state.   *)
(***************************************************************************)
EXTENDS Integers, Sequences, FiniteSets, TLC

\* ------------------------------------------------------------ bounds
MaxStarts == 2    \* start_update invocations
MaxCloses == 2    \* update_over invocations typed by a member
MaxMods == 1      \* opkick / opban / im_not_here invocations
MaxJoins == 2     \* voice state events delivered to the cog
MaxInFlight == 2  \* coroutines suspended at an await at the same time
MaxProvisions == 2  \* starts that provision over one category or staging channel
MaxMessages == 3  \* messages in the history of a team channel
MaxTeams == 3     \* teams the selection chooses among
MaxLoad == 5      \* soldiers of a team the selection chooses among

\* the size in bytes above which log() opens another file
MAX_FILE == 8000000

\* ------------------------------------------------------------ guild
None == 0
Members == 1..4
\* position of each member's top role: 3 Command, 2 Officer, 1 Soldier,
\* 0 no role but @everyone
TopRole == <<3, 2, 2, 0>>
GuildOwner == 3
BotOwners == {4}
\* indices of _levels
COMMAND == 0
OFFICER == 1
\* ctx.__op_cache__: the configured command, officer and soldier roles, by
\* position (0: not configured)
OpCache == <<3, 2, 1>>

\* one OpDict per start that registers
OpIds == 1..MaxStarts
\* coroutines of update_over typed by members, and one per timer
ManualIds == {1, 2}
TimerOf(o) == 2 + o
CloserIds == ManualIds \cup {TimerOf(o) : o \in OpIds}
\* the leader arguments a start is given (empty: the author leads)
LeaderArgs == {<< >>, <<3>>, <<2, 3>>, <<4>>}
StartAuthors == {1, 2}

VARIABLES
    operations,   \* self.operations[guild]: the registered OpDict, or None
    ops,          \* the OpDict objects, by identity
    start,        \* the start_update coroutines, one per OpDict
    closer,       \* the update_over coroutines
    timer,        \* the call_later handle of each operation
    mod,          \* the opkick / opban / im_not_here coroutine
    quota,        \* invocations the environment still makes, by kind
    last,         \* what the step just taken returned to its caller, if it returned
    unit          \* one part of the cog run on its own: its inputs and what it computed

vars == <<operations, ops, start, closer, timer, mod, quota, last, unit>>

\* ------------------------------------------------------------ helpers
RECURSIVE SumLen(_)
SumLen(s) == IF s = << >> THEN 0 ELSE Cardinality(Head(s).soldiers) + SumLen(Tail(s))

MaxOf(S) == CHOOSE x \in S : \A y \in S : y <= x

\* ctx.bot.is_owner(member)
IsOwner(m) == m \in BotOwners

\* the first configured role of cache[level:], or None (lines 76-89)
RECURSIVE FirstRequirement(_)
FirstRequirement(i) ==
    IF i > Len(OpCache) THEN None
    ELSE IF OpCache[i] # 0 THEN OpCache[i] ELSE FirstRequirement(i + 1)

\* _requires(ctx, level) with level an index of _levels
RequiresIndex(m, level) ==
    IF level = 0 THEN TRUE
    ELSE IF IsOwner(m) THEN TRUE
    ELSE LET r == FirstRequirement(level + 1)
         IN  r # None /\ TopRole[m] >= r

\* _requires(ctx, COMMAND): the level is the string "command", which is
\* truthy, and becomes its index only after the owner test
RequiresCommand(m) ==
    IF IsOwner(m) THEN TRUE
    ELSE LET r == FirstRequirement(COMMAND + 1)
         IN  r # None /\ TopRole[m] >= r

\* the check of @requires(OFFICER)
RequiresOfficer(m) == RequiresIndex(m, OFFICER)

\* the roles a member holds, by position (every role up to the top one)
RolesOf(m) == 1..TopRole[m]
\* args[Role] of a start without joint roles: the configured roles
DefaultRoles == {OpCache[i] : i \in 1..Len(OpCache)} \ {0}

\* a team as line 466 builds it: no "soldiers" key; archived counts the calls
\* of log() on it
NewTeam(l) == [leader |-> l, keyed |-> FALSE, soldiers |-> {}, archived |-> 0]
\* op: OpDict = {}; teams is empty until line 465 sets the key; banned holds
\* the members whose opban reported success, closedBy the update_over that
\* popped it, relabelled whether line 518 has renamed its staging channel
NewOp == [category |-> FALSE, staging |-> FALSE, teams |-> << >>, blacklist |-> {},
          banned |-> {}, closedBy |-> None, relabelled |-> FALSE]
Leaders(o) == {ops[o].teams[i].leader : i \in 1..Len(ops[o].teams)}
HasTeams(o) == ops[o].teams # << >>

IdleStart == [pc |-> "idle", author |-> None, leaders |-> << >>, joint |-> FALSE]
IdleCloser == [pc |-> "idle", author |-> None, seen |-> None, op |-> None, i |-> 0]
IdleMod == [pc |-> "idle", kind |-> "none", author |-> None, target |-> None,
            op |-> None, i |-> 0, dirty |-> FALSE, removed |-> 0]
\* the workloads of the environment: the life cycle of operations, and the
\* rosters of one operation
Workloads ==
    {[start |-> MaxStarts, close |-> MaxCloses, mod |-> 0, join |-> 0],
     [start |-> 1, close |-> 1, mod |-> MaxMods, join |-> MaxJoins]}
Nothing == [cmd |-> "none", author |-> None, target |-> None, op |-> None,
            seen |-> None, result |-> "none", dirty |-> FALSE, removed |-> 0,
            added |-> 0, team |-> 0, timer |-> None]

\* of symmetric coroutine slots the lowest free one is taken
LowestIdle(f, S, k) == f[k].pc = "idle" /\ \A j \in S : j < k => f[j].pc # "idle"

\* where a start_update coroutine that has returned stands: after line 490,
\* after one of its refusals, after an exception
Ended == {"done", "refused", "raised"}

\* the coroutines that are suspended at an await
InFlight ==
    Cardinality({o \in OpIds : start[o].pc \notin {"idle"} \cup Ended})
    + Cardinality({c \in CloserIds : closer[c].pc # "idle"})
    + (IF mod.pc = "idle" THEN 0 ELSE 1)
Room == InFlight < MaxInFlight

\* no part is run on its own
NoUnit == [fn |-> "none"]

\* the cog after __init__: self.operations = {}
InitCog ==
    /\ operations = None
    /\ ops = [o \in OpIds |-> NewOp]
    /\ start = [o \in OpIds |-> IdleStart]
    /\ closer = [c \in CloserIds |-> IdleCloser]
    /\ timer = [o \in OpIds |-> [state |-> "unset", author |-> None]]
    /\ mod = IdleMod
    /\ last = Nothing

Init ==
    /\ InitCog
    /\ quota \in Workloads
    /\ unit = NoUnit

\* ------------------------------------------------------------ start_update
\* (the registry test left out)
AlreadyOngoing_NoTest == FALSE

\* line 314: if ctx.guild in self.operations
AlreadyOngoing == operations # None

\* (the entry left in the registry)
Popped_Kept(reg) == reg

\* self.operations.pop(ctx.guild): what the registry holds for the guild
\* afterwards
Popped(reg) == None

\* self.operations.pop(ctx.guild) of a start that gives up
StartGiveUp(o, why) ==
    /\ start' = [start EXCEPT ![o] = [IdleStart EXCEPT !.pc = "refused"]]
    /\ IF operations = None
       THEN /\ last' = [Nothing EXCEPT !.cmd = "start", !.author = start[o].author,
                           !.op = o, !.result = "KeyError:pop"]
            /\ UNCHANGED operations
       ELSE /\ last' = [Nothing EXCEPT !.cmd = "start", !.author = start[o].author,
                           !.op = o, !.seen = operations, !.result = why]
            /\ operations' = Popped(operations)

\* lines 312-318: the shotgun refusal, the registry test and the registration
StartEntry(o) ==
    /\ quota.start > 0
    /\ Room
    /\ LowestIdle(start, OpIds, o)
    /\ quota' = [quota EXCEPT !.start = @ - 1]
    /\ \E a \in StartAuthors, l \in LeaderArgs, j \in BOOLEAN, shotgun \in {0, 1} :
        /\ RequiresOfficer(a)
        /\ IF shotgun # 0
           THEN /\ last' = [Nothing EXCEPT !.cmd = "start", !.author = a,
                               !.seen = operations, !.result = "Shotgun"]
                /\ UNCHANGED <<operations, ops, start>>
           ELSE IF AlreadyOngoing
           THEN /\ last' = [Nothing EXCEPT !.cmd = "start", !.author = a,
                               !.seen = operations, !.result = "AlreadyActive"]
                /\ UNCHANGED <<operations, ops, start>>
           ELSE /\ operations' = o
                /\ start' = [start EXCEPT ![o] = [pc |-> "typing", author |-> a,
                                                     leaders |-> l, joint |-> j]]
                /\ UNCHANGED <<ops>> /\ last' = Nothing
    /\ UNCHANGED <<closer, timer, mod, unit>>

\* lines 319-335: joint roles need Command
StartValidate(o) ==
    /\ start[o].pc = "typing"
    /\ IF start[o].joint /\ ~RequiresCommand(start[o].author)
       THEN StartGiveUp(o, "InsufficientAuthority")
       ELSE /\ start' = [start EXCEPT ![o].pc = "confirm", ![o].joint = FALSE]
            /\ UNCHANGED <<operations>> /\ last' = Nothing
    /\ UNCHANGED <<ops, closer, timer, mod, quota, unit>>

\* args[Member] as a list (lines 336-337, 347)
TeamLeaders(o) == IF start[o].leaders = << >> THEN <<start[o].author>> ELSE start[o].leaders

\* line 414: any(role in args[Role] for role in member.roles); joint roles are
\* roles no member of this guild holds
LeaderHasRole(m) == RolesOf(m) \cap DefaultRoles # {}

\* lines 368-427: the confirmation and the leaders' roles
StartConfirm(o) ==
    /\ start[o].pc = "confirm"
    /\ \E yes \in BOOLEAN :
        IF ~yes
        THEN StartGiveUp(o, "Cancelled")
        ELSE IF \E i \in 1..Len(TeamLeaders(o)) : ~LeaderHasRole(TeamLeaders(o)[i])
        THEN StartGiveUp(o, "InvalidComposition")
        ELSE /\ start' = [start EXCEPT ![o].pc = "category"]
             /\ UNCHANGED <<operations>> /\ last' = Nothing
    /\ UNCHANGED <<ops, closer, timer, mod, quota, unit>>

\* a collaborator call of the provisioning raises: nothing catches it, the
\* exception leaves start_update and the OpDict stays in self.operations
StartRaise(o) ==
    /\ start' = [start EXCEPT ![o] = [IdleStart EXCEPT !.pc = "raised"]]
    /\ last' = [Nothing EXCEPT !.cmd = "start", !.author = start[o].author, !.op = o,
                   !.seen = operations, !.result = "CollaboratorError"]

\* lines 428-445: op["category"] = cat
StartCategory(o) ==
    /\ start[o].pc = "category"
    /\ \E raises \in BOOLEAN :
        IF raises
        THEN StartRaise(o) /\ UNCHANGED ops
        ELSE /\ ops' = [ops EXCEPT ![o].category = TRUE]
             /\ start' = [start EXCEPT ![o].pc = "channels"]
             /\ last' = Nothing
    /\ UNCHANGED <<operations, closer, timer, mod, quota, unit>>

\* lines 446-468: op["teams"], one team per leader, without a "soldiers" key
StartChannels(o) ==
    /\ start[o].pc = "channels"
    /\ \E raises \in BOOLEAN :
        IF raises
        THEN StartRaise(o) /\ UNCHANGED ops
        ELSE /\ ops' = [ops EXCEPT ![o].teams =
                           [i \in 1..Len(TeamLeaders(o)) |-> NewTeam(TeamLeaders(o)[i])]]
             /\ start' = [start EXCEPT ![o].pc = "staging", ![o].leaders = << >>]
             /\ last' = Nothing
    /\ UNCHANGED <<operations, closer, timer, mod, quota, unit>>

\* lines 469-483: op["staging"] = staging
StartStaging(o) ==
    /\ start[o].pc = "staging"
    /\ \E raises \in BOOLEAN :
        IF raises
        THEN StartRaise(o) /\ UNCHANGED ops
        ELSE /\ ops' = [ops EXCEPT ![o].staging = TRUE]
             /\ start' = [start EXCEPT ![o].pc = "finish"]
             /\ last' = Nothing
    /\ UNCHANGED <<operations, closer, timer, mod, quota, unit>>

\* lines 484-490: the auto-expiry timer, armed with the context of this start
\* and never cancelled afterwards
StartFinish(o) ==
    /\ start[o].pc = "finish"
    /\ timer' = [timer EXCEPT ![o] = [state |-> "armed", author |-> start[o].author]]
    /\ start' = [start EXCEPT ![o] = [IdleStart EXCEPT !.pc = "done"]]
    /\ last' = [Nothing EXCEPT !.cmd = "start", !.author = start[o].author, !.op = o,
                   !.seen = operations, !.result = "ok"]
    /\ UNCHANGED <<operations, ops, closer, mod, quota, unit>>

\* ------------------------------------------------------------ update_over
\* the operation whose timer runs coroutine c, or None for a typed command
TimerOp(c) == IF c \in ManualIds THEN None ELSE c - 2

CloseReturn(c, a, seen, res) ==
    /\ closer' = [closer EXCEPT ![c] = IdleCloser]
    /\ last' = [Nothing EXCEPT !.cmd = "close", !.author = a, !.seen = seen,
                   !.op = closer[c].op, !.result = res, !.timer = TimerOp(c)]

\* line 506: op = self.operations.pop(ctx.guild)
ClosePop(c, a, seen) ==
    IF operations = None
    THEN /\ CloseReturn(c, a, seen, "KeyError:pop")
         /\ UNCHANGED <<operations, ops>>
    ELSE /\ closer' = [closer EXCEPT ![c] = [pc |-> "archive", author |-> a,
                                                seen |-> seen, op |-> operations, i |-> 1]]
         /\ ops' = [ops EXCEPT ![operations].closedBy = c]
         /\ operations' = Popped(operations)
         /\ last' = Nothing

\* line 502: ctx.author not in (t["leader"] for t in ...["teams"])
IsLeaderOf(a, o) == a \in Leaders(o)

\* lines 500-506, up to the first await: a leader goes on to the pop at once,
\* anybody else is suspended in _requires
UpdateOverEntry(c, a) ==
    IF operations = None
    THEN /\ CloseReturn(c, a, None, "noop")
         /\ UNCHANGED <<operations, ops>>
    ELSE IF ~HasTeams(operations)
    THEN /\ CloseReturn(c, a, operations, "KeyError:teams")
         /\ UNCHANGED <<operations, ops>>
    ELSE IF IsLeaderOf(a, operations)
    THEN ClosePop(c, a, operations)
    ELSE /\ closer' = [closer EXCEPT ![c] = [IdleCloser EXCEPT !.pc = "auth",
                                                !.author = a, !.seen = operations]]
         /\ UNCHANGED <<operations, ops>> /\ last' = Nothing

\* the command as typed by a member, behind @requires(OFFICER)
ManualClose(c) ==
    /\ quota.close > 0
    /\ Room
    /\ LowestIdle(closer, ManualIds, c)
    /\ quota' = [quota EXCEPT !.close = @ - 1]
    /\ \E a \in Members : RequiresOfficer(a) /\ UpdateOverEntry(c, a)
    /\ UNCHANGED <<start, timer, mod, unit>>

\* lines 488-490: the timer invokes update_over with the context of the start
TimerFire(o) ==
    /\ timer[o].state = "armed"
    /\ Room
    /\ timer' = [timer EXCEPT ![o] = [state |-> "fired", author |-> None]]
    /\ UpdateOverEntry(TimerOf(o), timer[o].author)
    /\ UNCHANGED <<start, mod, quota, unit>>

\* lines 504-506: after _requires(ctx, COMMAND)
CloseAuth(c) ==
    /\ closer[c].pc = "auth"
    /\ IF ~RequiresCommand(closer[c].author)
       THEN /\ CloseReturn(c, closer[c].author, closer[c].seen, "NotAllowed")
            /\ UNCHANGED <<operations, ops>>
       ELSE ClosePop(c, closer[c].author, closer[c].seen)
    /\ UNCHANGED <<start, timer, mod, quota, unit>>

\* lines 512-517: one team of the popped operation is logged and released;
\* an exception of log() or of the channel's delete/edit is caught nowhere
\* and ends update_over
CloseArchive(c) ==
    /\ closer[c].pc = "archive"
    /\ LET o == closer[c].op
           i == closer[c].i
       IN  IF ~HasTeams(o)
           THEN /\ CloseReturn(c, closer[c].author, closer[c].seen, "KeyError:teams")
                /\ UNCHANGED ops
           ELSE \E raises \in BOOLEAN :
                IF raises
                THEN /\ CloseReturn(c, closer[c].author, closer[c].seen, "CollaboratorError")
                     /\ UNCHANGED ops
                ELSE /\ ops' = [ops EXCEPT ![o].teams[i].archived = @ + 1]
                     /\ closer' = [closer EXCEPT ![c].i = i + 1,
                            ![c].pc = IF i = Len(ops[o].teams) THEN "relabel" ELSE "archive"]
                     /\ last' = Nothing
    /\ UNCHANGED <<operations, start, timer, mod, quota, unit>>

\* lines 518-521: the staging channel is relabelled
CloseRelabel(c) ==
    /\ closer[c].pc = "relabel"
    /\ ops' = [ops EXCEPT ![closer[c].op].relabelled = TRUE]
    /\ CloseReturn(c, closer[c].author, closer[c].seen, "ok")
    /\ UNCHANGED <<operations, start, timer, mod, quota, unit>>

\* ------------------------------------------------------------ opkick, opban, im_not_here
\* lines 534/560: ctx.author == ctx.guild.owner or await ctx.bot.is_owner(...)
IsSpecial(a) == a = GuildOwner \/ IsOwner(a)

\* (the rank test with > for >=)
TooHigh_Strict(a, t) == TopRole[t] > TopRole[a]

\* lines 535/561: member.top_role >= ctx.author.top_role
TooHigh(a, t) == TopRole[t] >= TopRole[a]

\* the loop over op["teams"] from team i to its next await or return
RECURSIVE LoopOutcome(_, _, _)
LoopOutcome(teams, t, i) ==
    IF teams = << >> THEN [kind |-> "KeyError", at |-> i]
    ELSE IF i > Len(teams) THEN [kind |-> "end", at |-> i]
    ELSE IF teams[i].leader = t THEN [kind |-> "leader", at |-> i]
    ELSE IF ~teams[i].keyed THEN [kind |-> "KeyError", at |-> i]
    ELSE IF t \notin teams[i].soldiers THEN LoopOutcome(teams, t, i + 1)
    ELSE [kind |-> "remove", at |-> i]

ModReturn(rec, res) ==
    /\ mod' = IdleMod
    /\ last' = [Nothing EXCEPT !.cmd = rec.kind, !.author = rec.author,
                   !.target = rec.target, !.op = rec.op, !.seen = rec.op,
                   !.result = res, !.dirty = rec.dirty, !.removed = rec.removed]

\* line 563 of opban, which comes before the loop
BanListed(bl, t) == bl \cup {t}

\* the loop of lines 537-547, 564-573 and 664-676, resumed at team rec.i
ModRun(rec, bl) ==
    LET o == rec.op
        t == rec.target
        out == LoopOutcome(ops[o].teams, t, rec.i)
        now == [rec EXCEPT !.dirty = rec.dirty \/ bl # ops[o].blacklist
                                     \/ out.kind = "remove",
                           !.removed = rec.removed + (IF out.kind = "remove" THEN 1 ELSE 0),
                           !.i = out.at + 1, !.pc = "loop"]
    IN  /\ ops' = [ops EXCEPT ![o].blacklist = bl,
                      ![o].banned = IF out.kind = "end" /\ rec.kind = "ban"
                                    THEN @ \cup {t} ELSE @,
                      ![o].teams = IF out.kind = "remove"
                                   THEN [@ EXCEPT ![out.at].soldiers = @ \ {t}]
                                   ELSE @]
        /\ IF out.kind = "remove"
           THEN mod' = now /\ last' = Nothing
           ELSE ModReturn(now, CASE out.kind = "KeyError" -> "KeyError:soldiers"
                                 [] out.kind = "leader" -> "LeaderProtected"
                                 [] OTHER -> "ok")

\* lines 535-547 and 561-573, from the rank test to the first await
ModBody(rec) ==
    IF ~IsSpecial(rec.author) /\ TooHigh(rec.author, rec.target)
    THEN ModReturn(rec, "InsufficientAuthority") /\ UNCHANGED ops
    ELSE ModRun(rec, IF rec.kind = "ban"
                     THEN BanListed(ops[rec.op].blacklist, rec.target)
                     ELSE ops[rec.op].blacklist)

\* lines 529-534 and 555-560
ModEntry ==
    /\ quota.mod > 0
    /\ Room
    /\ mod.pc = "idle"
    /\ quota' = [quota EXCEPT !.mod = @ - 1]
    /\ \E kind \in {"kick", "ban"}, a \in Members, t \in Members :
        /\ RequiresOfficer(a)
        /\ LET rec == [IdleMod EXCEPT !.kind = kind, !.author = a, !.target = t,
                                      !.op = operations, !.i = 1]
           IN  IF operations = None
               THEN ModReturn(rec, "noop") /\ UNCHANGED ops
               ELSE IF t = a
               THEN ModReturn(rec, "SelfTargetForbidden") /\ UNCHANGED ops
               ELSE IF a = GuildOwner
               THEN ModBody(rec)
               ELSE /\ mod' = [rec EXCEPT !.pc = "special"]
                    /\ UNCHANGED <<ops>> /\ last' = Nothing
    /\ UNCHANGED <<operations, start, closer, timer, unit>>

\* after await ctx.bot.is_owner(ctx.author)
ModSpecial ==
    /\ mod.pc = "special"
    /\ ModBody(mod)
    /\ UNCHANGED <<operations, start, closer, timer, quota, unit>>

\* after the permission writes that follow a removal
ModLoop ==
    /\ mod.pc = "loop"
    /\ ModRun(mod, ops[mod.op].blacklist)
    /\ UNCHANGED <<operations, start, closer, timer, quota, unit>>

\* lines 660-676: im_not_here, open to every member
LeaveEntry ==
    /\ quota.mod > 0
    /\ Room
    /\ mod.pc = "idle"
    /\ quota' = [quota EXCEPT !.mod = @ - 1]
    /\ \E a \in Members :
        LET rec == [IdleMod EXCEPT !.kind = "leave", !.author = a, !.target = a,
                                   !.op = operations, !.i = 1]
        IN  IF operations = None
            THEN ModReturn(rec, "noop") /\ UNCHANGED ops
            ELSE ModRun(rec, ops[operations].blacklist)
    /\ UNCHANGED <<operations, start, closer, timer, unit>>

\* ------------------------------------------------------------ disband
\* (the return of line 625 taken out)
Stubbed_Off == FALSE

\* lines 617-627: disband returns before the code that would change a team
Stubbed == TRUE

\* line 629: teams.pop(i)
RemoveAt(q, i) == SubSeq(q, 1, i - 1) \o SubSeq(q, i + 1, Len(q))

\* lines 607-627, and line 629 behind them
DisbandBody(rec) ==
    IF operations = None
    THEN ModReturn(rec, "KeyError:guild") /\ UNCHANGED ops
    ELSE LET teams == ops[operations].teams
             led == {i \in 1..Len(teams) : teams[i].leader = rec.target}
         IN  IF teams = << >>
             THEN ModReturn(rec, "KeyError:teams") /\ UNCHANGED ops
             ELSE IF Len(teams) = 1
             THEN ModReturn(rec, "LastTeamRemaining") /\ UNCHANGED ops
             ELSE IF led = {}
             THEN ModReturn(rec, "NoTeam") /\ UNCHANGED ops
             ELSE IF Stubbed
             THEN ModReturn(rec, "Stubbed") /\ UNCHANGED ops
             ELSE /\ ops' = [ops EXCEPT ![operations].teams = RemoveAt(teams, MaxOf(led))]
                  /\ ModReturn(rec, "ok")

\* lines 601-605: leader = leader or ctx.author; another leader's team needs
\* _requires(ctx, COMMAND), which suspends
DisbandEntry ==
    /\ quota.mod > 0
    /\ Room
    /\ mod.pc = "idle"
    /\ quota' = [quota EXCEPT !.mod = @ - 1]
    /\ \E a \in Members, l \in Members \cup {None} :
        /\ RequiresOfficer(a)
        /\ LET rec == [IdleMod EXCEPT !.kind = "disband", !.author = a,
                                      !.target = IF l = None THEN a ELSE l,
                                      !.op = operations]
           IN  IF operations = None
               THEN ModReturn(rec, "noop") /\ UNCHANGED ops
               ELSE IF rec.target # a
               THEN /\ mod' = [rec EXCEPT !.pc = "command"]
                    /\ UNCHANGED <<ops>> /\ last' = Nothing
               ELSE DisbandBody(rec)
    /\ UNCHANGED <<operations, start, closer, timer, unit>>

\* lines 604-605, after _requires(ctx, COMMAND)
DisbandAuth ==
    /\ mod.pc = "command"
    /\ IF ~RequiresCommand(mod.author)
       THEN ModReturn(mod, "InsufficientAuthority") /\ UNCHANGED ops
       ELSE DisbandBody(mod)
    /\ UNCHANGED <<operations, start, closer, timer, quota, unit>>

\* ------------------------------------------------------------ on_voice_state_update
\* (the blacklist test left out)
Blacklisted_NoTest(o, m) == FALSE

\* line 720: member in op.setdefault("blacklist", set())
Blacklisted(o, m) == m \in ops[o].blacklist

\* (the counts as they were before any assignment)
Loads_Stale(teams) == [i \in 1..Len(teams) |-> 0]

\* line 727: the soldier counts
Loads(teams) == [i \in 1..Len(teams) |-> Cardinality(teams[i].soldiers)]

\* (the counts themselves as weights)
WeightsOf_Loads(l) == l

\* lines 728-731: the weights of random.choices for the counts l
WeightsOf(l) ==
    LET mx == MaxOf({l[i] : i \in 1..Len(l)})
        w == [i \in 1..Len(l) |-> mx - l[i]]
    IN  IF \A i \in 1..Len(w) : w[i] = 0 THEN [i \in 1..Len(w) |-> 1] ELSE w
Weights(teams) == WeightsOf(Loads(teams))

\* (every team can be returned)
SelectableOf_Any(l) == 1..Len(l)

\* lines 724-732: the teams the selection can return for the counts l;
\* random.choices returns no element of weight 0
SelectableOf(l) ==
    IF Len(l) = 1 THEN {1}
    ELSE {i \in 1..Len(l) : WeightsOf(l)[i] > 0}
Selectable(teams) == SelectableOf(Loads(teams))

\* lines 727 and 733: every setdefault("soldiers", set()) the handler runs
Keyed(teams, chosen) ==
    [i \in 1..Len(teams) |->
        IF Len(teams) > 1 \/ i = chosen THEN [teams[i] EXCEPT !.keyed = TRUE] ELSE teams[i]]

JoinReturn(m, o, res, team, added) ==
    last' = [Nothing EXCEPT !.cmd = "join", !.author = m, !.target = m, !.op = o,
                !.seen = o, !.result = res, !.team = team, !.added = added]

\* lines 711-733, the whole handler up to its first await; the awaits after
\* it write permissions, send a message and disconnect the member
Join(m, toStaging) ==
    /\ quota.join > 0
    /\ quota' = [quota EXCEPT !.join = @ - 1]
    /\ IF operations = None
       THEN JoinReturn(m, None, "noop", 0, 0) /\ UNCHANGED ops
       ELSE LET o == operations IN
            IF ~ops[o].staging
            THEN JoinReturn(m, o, "KeyError:staging", 0, 0) /\ UNCHANGED ops
            ELSE IF ~toStaging
            THEN JoinReturn(m, o, "elsewhere", 0, 0) /\ UNCHANGED ops
            ELSE IF Blacklisted(o, m)
            THEN JoinReturn(m, o, "blacklisted", 0, 0) /\ UNCHANGED ops
            ELSE \E i \in Selectable(ops[o].teams) :
                 LET after == [Keyed(ops[o].teams, i) EXCEPT ![i].soldiers = @ \cup {m}]
                 IN  /\ ops' = [ops EXCEPT ![o].teams = after]
                     /\ JoinReturn(m, o, "assigned", i,
                                   SumLen(after) - SumLen(ops[o].teams))
    /\ UNCHANGED <<operations, start, closer, timer, mod, unit>>

\* ------------------------------------------------------------ log
\* a message of the history: the bytes message_format makes of it, and
\* whether a bot wrote it
MessageSizes == {1, MAX_FILE - 1, MAX_FILE, MAX_FILE + 1}
Messages == [size : MessageSizes, bot : BOOLEAN]
Histories == UNION {[1..n -> Messages] : n \in 0..MaxMessages}

RECURSIVE Sum(_)
Sum(q) == IF q = << >> THEN 0 ELSE Head(q) + Sum(Tail(q))

\* (a file is closed on reaching the size)
Exceeds_AtThreshold(n) == n >= MAX_FILE

\* line 123: bios[-1].tell() > MAX_FILE
Exceeds(n) == n > MAX_FILE

\* lines 118-127: bios, each file as the sizes of the messages written to it
RECURSIVE Bios(_, _)
Bios(history, bios) ==
    IF history = << >> THEN bios
    ELSE LET k == Len(bios)
             written == [bios EXCEPT ![k] = Append(@, Head(history).size)]
         IN  Bios(Tail(history),
                  IF Exceeds(Sum(written[k])) THEN Append(written, << >>) ELSE written)

\* line 128: not last_message or not members
NothingToLog(history) == history = << >> \/ \A i \in 1..Len(history) : history[i].bot

LogInputs ==
    {[fn |-> "log", history |-> h, done |-> FALSE, bios |-> << >>, files |-> 0] :
        h \in Histories}

\* log(team, destination): the files built, and how many of them are sent
Log ==
    /\ unit.fn = "log"
    /\ ~unit.done
    /\ LET bios == Bios(unit.history, << << >> >>)
       IN  unit' = [unit EXCEPT !.done = TRUE, !.bios = bios,
                      !.files = IF NothingToLog(unit.history) THEN 0 ELSE Len(bios)]
    /\ UNCHANGED <<operations, ops, start, closer, timer, mod, quota, last>>

\* line 131: the non-bot authors of the channel, without the leader
Spoke(team, authors) == authors \ {team.leader}

\* lines 141 and 147-149: the participants the summary lists
Roster(team, authors) == team.soldiers \cup Spoke(team, authors)

\* line 146: the mark behind a participant of the summary
Flag(team, authors, m) ==
    IF m \notin Spoke(team, authors) THEN "never spoke"
    ELSE IF m \notin team.soldiers THEN "left"
    ELSE "none"

\* ------------------------------------------------------------ overlays of start_update
\* the subjects of permission overwrites: roles by position (0: the default
\* role, @everyone) and members (0: ctx.me, the bot)
RoleSubject(r) == <<"role", r>>
MemberSubject(m) == <<"member", m>>
Everyone == RoleSubject(None)
Me == MemberSubject(None)
\* the members that lead the teams of a start or entered staging before
OverlayMembers == {1, 2}
OverlaySubjects ==
    {Everyone, Me} \cup {RoleSubject(r) : r \in DefaultRoles}
                   \cup {MemberSubject(m) : m \in OverlayMembers}
LeaderSets == {{1}, {1, 2}}

\* lines 320-325: the configured role of the lowest index of _levels
HighestRole == FirstRequirement(1)

\* lines 382-405: cat_overs; "none": the subject has no entry
CatOvers ==
    [s \in OverlaySubjects |->
        IF s = Everyone THEN "closed"
        ELSE IF s = RoleSubject(HighestRole) THEN "manage"
        ELSE IF s = Me THEN "bot"
        ELSE "none"]

\* lines 406-421: staging_overs, a copy of cat_overs in which every role of
\* args[Role] is let in and every leader is kept out
StagingOvers(leaders) ==
    [s \in OverlaySubjects |->
        IF s \in {MemberSubject(m) : m \in leaders} THEN "shut"
        ELSE IF s \in {RoleSubject(r) : r \in DefaultRoles} THEN "open"
        ELSE CatOvers[s]]

\* what start_update wants on the resource
Desired(resource, leaders) ==
    IF resource = "category" THEN CatOvers ELSE StagingOvers(leaders)

\* what a resource can carry when a start finds it: per subject no entry,
\* the entry a start with these leaders writes, the entry line 739 writes
\* for a member that joined ("shut"), or an entry made by hand ("other")
Stale(s) == IF s[1] = "member" /\ s # Me THEN "shut" ELSE "other"
Leftovers(resource, leaders) ==
    {[s \in OverlaySubjects |->
         CASE pick[s] = "none" -> "none"
           [] pick[s] = "desired" -> Desired(resource, leaders)[s]
           [] OTHER -> Stale(s)] :
       pick \in [OverlaySubjects -> {"none", "desired", "stale"}]}

\* lines 438-444: the subjects the category's loops write
CategoryWrites(current, desired) ==
    LET differ == {s \in OverlaySubjects : desired[s] # "none" /\ current[s] # desired[s]}
        extra == {s \in OverlaySubjects : desired[s] = "none" /\ current[s] # "none"}
    IN  [set |-> differ, clear |-> extra]

\* lines 476-482: the subjects the staging channel's gather writes
StagingWrites(current, desired) ==
    [set |-> {s \in OverlaySubjects : desired[s] # "none"}, clear |-> {}]

\* the overlay after the permission writes w
Written(current, desired, w) ==
    [s \in OverlaySubjects |->
        IF s \in w.set THEN desired[s]
        ELSE IF s \in w.clear THEN "none"
        ELSE current[s]]

\* a category or staging channel as a start finds it, or none
OverlayInput(r, l, found, c) ==
    [fn |-> "overlay", resource |-> r, leaders |-> l, exists |-> found,
     reused |-> FALSE, before |-> c, overs |-> c, writes |-> 0, runs |-> 0]
OverlayInputs ==
    UNION {{OverlayInput(r, l, TRUE, c) : c \in Leftovers(r, l)}
              \cup {OverlayInput(r, l, FALSE, [s \in OverlaySubjects |-> "none"])} :
           r \in {"category", "staging"}, l \in LeaderSets}

\* lines 432-445 (category) or 469-483 (staging) of one start
Provision(w) ==
    /\ unit.fn = "overlay"
    /\ unit.runs < MaxProvisions
    /\ LET desired == Desired(unit.resource, unit.leaders)
       IN  unit' = [unit EXCEPT
                      !.exists = TRUE,
                      !.reused = unit.exists,
                      !.before = unit.overs,
                      !.overs = IF unit.exists THEN Written(unit.overs, desired, w)
                                ELSE desired,
                      !.writes = IF unit.exists
                                 THEN Cardinality(w.set) + Cardinality(w.clear) ELSE 0,
                      !.runs = @ + 1]
    /\ UNCHANGED <<operations, ops, start, closer, timer, mod, quota, last>>

ProvisionCategory ==
    /\ unit.fn = "overlay" /\ unit.resource = "category"
    /\ Provision(CategoryWrites(unit.overs, CatOvers))

ProvisionStaging ==
    /\ unit.fn = "overlay" /\ unit.resource = "staging"
    /\ Provision(StagingWrites(unit.overs, StagingOvers(unit.leaders)))

\* ------------------------------------------------------------ the selection on its own
LoadSeqs == UNION {[1..n -> 0..MaxLoad] : n \in 1..MaxTeams}
SelectInputs ==
    {[fn |-> "select", loads |-> l, done |-> FALSE, options |-> {}, team |-> 0] :
        l \in LoadSeqs}

\* lines 723-732 for teams with the soldier counts unit.loads
Select ==
    /\ unit.fn = "select"
    /\ ~unit.done
    /\ \E i \in SelectableOf(unit.loads) :
          unit' = [unit EXCEPT !.done = TRUE, !.options = SelectableOf(unit.loads),
                     !.team = i]
    /\ UNCHANGED <<operations, ops, start, closer, timer, mod, quota, last>>

\* the teams of a new operation, to which only participants that are in no
\* team are assigned
JoinInputs ==
    {[fn |-> "joins", loads |-> [i \in 1..n |-> 0], team |-> 0] : n \in 1..MaxTeams}

\* lines 723-733 for a participant who is in no team yet: the chosen team
\* has one soldier more
JoinNew ==
    /\ unit.fn = "joins"
    /\ \E i \in SelectableOf(unit.loads) :
          /\ unit.loads[i] < MaxLoad
          /\ unit' = [unit EXCEPT !.loads[i] = @ + 1, !.team = i]
    /\ UNCHANGED <<operations, ops, start, closer, timer, mod, quota, last>>

\* ------------------------------------------------------------ opset
OpsetInputs == {[fn |-> "opset", author |-> m, done |-> FALSE, allowed |-> FALSE] : m \in Members}

\* lines 255-257: the check of @requires(COMMAND), which hands _requires the
\* index of COMMAND in _levels
Opset ==
    /\ unit.fn = "opset"
    /\ ~unit.done
    /\ unit' = [unit EXCEPT !.done = TRUE, !.allowed = RequiresIndex(unit.author, COMMAND)]
    /\ UNCHANGED <<operations, ops, start, closer, timer, mod, quota, last>>

\* ------------------------------------------------------------ properties
Kicks == {"kick", "ban"}
Soldiers(o, i) == ops[o].teams[i].soldiers
TeamsOf(o) == 1..Len(ops[o].teams)

\* C1: a start issued while the guild has an operation registered is
\* rejected, registers nothing, provisions nothing and leaves the registered
\* operation as it was, wherever the two starts interleave.
C1_SecondStartRejected ==
    [][(quota'.start < quota.start /\ operations # None)
          => /\ operations' = operations
             /\ ops' = ops
             /\ start' = start
             /\ timer' = timer
             /\ last'.cmd = "start"
             /\ last'.result \in {"AlreadyActive", "Shotgun"}]_vars

\* a second start was refused while the first one awaits its confirmation
C1_Witness ==
    /\ last.cmd = "start"
    /\ last.result = "AlreadyActive"
    /\ operations # None
    /\ start[operations].pc = "confirm"

\* C2: the soldier sets of the teams of an operation are pairwise disjoint
\* and hold no leader of any team, whoever triggers a join event.
C2_RostersDisjoint ==
    \A o \in OpIds : \A i \in TeamsOf(o) :
        /\ Soldiers(o, i) \cap Leaders(o) = {}
        /\ \A j \in TeamsOf(o) : i # j => Soldiers(o, i) \cap Soldiers(o, j) = {}

\* C3: a participant whose ban reported success is in no soldier set of that
\* operation, and no join event of theirs reaches the team selection.
C3_BannedStaysOut ==
    /\ \A o \in OpIds : \A i \in TeamsOf(o) : Soldiers(o, i) \cap ops[o].banned = {}
    /\ (last.cmd = "join" /\ last.op # None /\ last.author \in ops[last.op].banned)
          => (last.result # "assigned" /\ last.team = 0 /\ last.added = 0)

\* a banned participant entered staging and was turned away
C3_Witness ==
    /\ last.cmd = "join"
    /\ last.result = "blacklisted"
    /\ last.author \in ops[last.op].banned

\* C4: on a registered operation a kick or ban of the actor themselves ends
\* with SelfTargetForbidden and one of a team leader with LeaderProtected,
\* whatever the ranks of the two.
C4_LeaderAlwaysProtected ==
    (last.cmd \in Kicks /\ last.op # None)
       => /\ last.target = last.author => last.result = "SelfTargetForbidden"
          /\ (last.target # last.author /\ last.target \in Leaders(last.op))
                => last.result = "LeaderProtected"

\* C5: a kick or ban that is rejected has changed no soldier set and has not
\* changed the blacklist.
C5_RejectionIsPure ==
    (last.cmd \in Kicks
     /\ last.result \in {"SelfTargetForbidden", "LeaderProtected", "InsufficientAuthority"})
       => ~last.dirty

\* C6: a kick or ban reports success only to the guild owner, a bot owner or
\* an actor whose top role is strictly above the target's; an actor who is
\* neither owner and whose top role equals the target's is refused with
\* InsufficientAuthority.
C6_StrictlyHigherRank ==
    last.cmd \in Kicks
       => /\ last.result = "ok"
                => \/ last.author = GuildOwner
                   \/ last.author \in BotOwners
                   \/ TopRole[last.author] > TopRole[last.target]
          /\ (/\ last.op # None
              /\ last.author # last.target
              /\ last.author # GuildOwner
              /\ last.author \notin BotOwners
              /\ TopRole[last.author] = TopRole[last.target])
                => last.result = "InsufficientAuthority"

\* an officer was refused the kick of another officer
C6_Witness ==
    /\ last.cmd \in Kicks
    /\ last.result = "InsufficientAuthority"
    /\ last.author # last.target
    /\ TopRole[last.author] = TopRole[last.target]

\* C7: a kick or ban that reports success has taken exactly one soldier out
\* of the teams, and an accepted join has added exactly one.
C7_CountsMoveByOne ==
    /\ (last.cmd \in Kicks /\ last.result = "ok") => last.removed = 1
    /\ (last.cmd = "join" /\ last.result = "assigned") => last.added = 1

\* C8: a close with nothing registered is a no-op, no team is archived twice,
\* a close that reaches its end has archived every team once, and of two
\* typed close requests on one operation the one that does not close it ends
\* without an error.
C8_CloseIdempotent ==
    /\ (last.cmd = "close" /\ last.seen = None) => last.result = "noop"
    /\ \A o \in OpIds : \A i \in TeamsOf(o) : ops[o].teams[i].archived <= 1
    /\ (last.cmd = "close" /\ last.result = "ok")
          => \A i \in TeamsOf(last.op) : ops[last.op].teams[i].archived = 1
    /\ (/\ last.cmd = "close"
        /\ last.timer = None
        /\ last.seen # None
        /\ last.op = None
        /\ ops[last.seen].closedBy \in ManualIds)
          => last.result \in {"ok", "noop", "NotAllowed"}

\* C9: the timer of an operation that a member has closed before it fires
\* takes no operation out of the registry, so it archives none.
C9_LateTimerIsNoOp ==
    \A o \in OpIds :
        (/\ closer[TimerOf(o)].pc # "idle"
         /\ closer[TimerOf(o)].seen # o
         /\ ops[o].closedBy \in ManualIds)
           => closer[TimerOf(o)].op = None

\* C10: once the timer of an operation has fired and its close has returned,
\* the operation is no longer registered.
C10_TimerCloses ==
    \A o \in OpIds :
        (timer[o].state = "fired" /\ closer[TimerOf(o)].pc = "idle") => operations # o

\* the OpDict holds no category, no team channel and no staging channel
Unprovisioned(o) == ~ops[o].category /\ ops[o].teams = << >> /\ ~ops[o].staging

\* C11: a start whose provisioning raised has left no operation of its own
\* in the registry and no category, team channel or staging resource behind.
C11_FailedStartRollsBack ==
    (last.cmd = "start" /\ last.result = "CollaboratorError")
       => /\ operations # last.op
          /\ Unprovisioned(last.op)

\* C12: a start that was refused for its joint roles, for a leader without
\* a required role, or at the confirmation has returned with nothing
\* registered, and its operation never has a category, a team, a staging
\* channel or a timer and is never the registered one.
Refusals == {"InsufficientAuthority", "InvalidComposition", "Cancelled"}
C12_RefusedStartLeavesNothing ==
    /\ (last.cmd = "start" /\ last.result \in Refusals)
          => (operations = None /\ start[last.op].pc = "refused")
    /\ \A o \in OpIds :
          start[o].pc = "refused"
             => (operations # o /\ Unprovisioned(o) /\ timer[o].state = "unset")

\* a start was cancelled at its confirmation
C12_Witness ==
    /\ last.cmd = "start"
    /\ last.result = "Cancelled"
    /\ start[last.op].pc = "refused"

\* C13: while a close is archiving the teams of an operation, that
\* operation is still the registered one of the guild.
C13_RegisteredWhileArchiving ==
    \A c \in CloserIds : closer[c].pc = "archive" => operations = closer[c].op

\* C14: when the archival of one team raised during a close, every other
\* team of the operation has been archived, the staging channel has been
\* relabelled and the operation is out of the registry.
C14_ArchiveFailureIsolated ==
    (last.cmd = "close" /\ last.result = "CollaboratorError" /\ last.op # None)
       => /\ Cardinality({i \in TeamsOf(last.op) : ops[last.op].teams[i].archived = 0}) <= 1
          /\ ops[last.op].relabelled
          /\ operations # last.op

\* the subjects whose entry differs between two overlays
Differing(a, b) == {s \in OverlaySubjects : a[s] # b[s]}

\* C15: provisioning over a reused category or staging channel writes
\* nothing when its overlay already is the desired one, otherwise at most
\* one entry per subject that differs, and provisioning it again right
\* afterwards writes nothing.
C15_ReconcileIdempotent ==
    (unit.fn = "overlay" /\ unit.runs > 0 /\ unit.reused)
       => LET desired == Desired(unit.resource, unit.leaders)
          IN  /\ unit.before = desired => unit.writes = 0
              /\ unit.writes <= Cardinality(Differing(unit.before, desired))
              /\ unit.runs > 1 => unit.writes = 0

\* C19: after a start has provisioned over a category or staging channel it
\* found, the resource's overlay is the desired one: no subject keeps an
\* entry that only the old overlay had.
C19_ReusedOverlayIsDesired ==
    (unit.fn = "overlay" /\ unit.runs > 0 /\ unit.reused)
       => LET desired == Desired(unit.resource, unit.leaders)
          IN  /\ \A s \in OverlaySubjects :
                    (desired[s] = "none" /\ unit.before[s] # "none") => unit.overs[s] = "none"
              /\ unit.overs = desired

\* C16: in the summary log() builds for the team a close is about to
\* archive, whoever the non-bot authors of its channel are, a listed author
\* who is no soldier is marked as having left, a soldier who is no author as
\* never having spoken, a soldier who is an author is not marked, and the
\* leader is never marked.
C16_RosterFlags ==
    \A c \in CloserIds :
        (closer[c].pc = "archive" /\ HasTeams(closer[c].op))
           => LET team == ops[closer[c].op].teams[closer[c].i]
              IN  \A authors \in SUBSET Members \ {{}} :
                  \A m \in Roster(team, authors) :
                      IF m = team.leader
                      THEN Flag(team, authors, m) = "none"
                      ELSE /\ (m \in authors /\ m \notin team.soldiers)
                                 => Flag(team, authors, m) = "left"
                           /\ (m \in team.soldiers /\ m \notin authors)
                                 => Flag(team, authors, m) = "never spoke"
                           /\ (m \in team.soldiers /\ m \in authors)
                                 => Flag(team, authors, m) = "none"

\* the messages of a file but the last one
Front(q) == SubSeq(q, 1, Len(q) - 1)
RECURSIVE Flat(_)
Flat(qq) == IF qq = << >> THEN << >> ELSE Head(qq) \o Flat(Tail(qq))

\* C17: messages of MAX_FILE + 1 bytes in all make two files and messages
\* of MAX_FILE bytes in all make one; the files hold the messages in order,
\* every file but the last went above MAX_FILE with its last message and not
\* before, and the last file is not above MAX_FILE; when anything is sent,
\* every file is.
C17_ChunkCount ==
    (unit.fn = "log" /\ unit.done)
       => LET sizes == [i \in 1..Len(unit.history) |-> unit.history[i].size]
              b == unit.bios
          IN  /\ Sum(sizes) = MAX_FILE + 1 => Len(b) = 2
              /\ Sum(sizes) = MAX_FILE => Len(b) = 1
              /\ Flat(b) = sizes
              /\ \A k \in 1..(Len(b) - 1) :
                    /\ b[k] # << >>
                    /\ Sum(b[k]) > MAX_FILE
                    /\ Sum(Front(b[k])) <= MAX_FILE
              /\ Sum(b[Len(b)]) <= MAX_FILE
              /\ ~NothingToLog(unit.history) => unit.files = Len(b)

\* two messages of MAX_FILE + 1 bytes in all were logged into two files
C17_Witness ==
    /\ unit.fn = "log"
    /\ unit.done
    /\ Len(unit.history) = 2
    /\ unit.history[1].size + unit.history[2].size = MAX_FILE + 1
    /\ Len(unit.bios) = 2
    /\ unit.files = 2

\* C18: the selection returns a team below the highest soldier count, and
\* can return exactly those, unless all counts are equal, when it can return
\* every team; for the counts 3 and 5 it returns the first team.
C18_SelectsBelowMax ==
    (unit.fn = "select" /\ unit.done)
       => LET l == unit.loads
              mx == MaxOf({l[i] : i \in 1..Len(l)})
          IN  /\ unit.team \in unit.options
              /\ IF \A i \in 1..Len(l) : l[i] = mx
                 THEN unit.options = 1..Len(l)
                 ELSE /\ mx - l[unit.team] > 0
                      /\ unit.options = {i \in 1..Len(l) : l[i] < mx}
              /\ l = <<3, 5>> => unit.team = 1

\* of teams with 3 and 5 soldiers the first was selected
C18_Witness ==
    /\ unit.fn = "select"
    /\ unit.done
    /\ unit.loads = <<3, 5>>
    /\ unit.team = 1

\* C20: once an update_over has taken an operation out of the registry, no
\* step changes the soldier set of a team of it that is still to be archived.
C20_RostersFrozen ==
    [][\A o \in OpIds :
          ops[o].closedBy # None
             => \A i \in TeamsOf(o) :
                   ops[o].teams[i].archived = 0
                      => ops'[o].teams[i].soldiers = ops[o].teams[i].soldiers]_vars

\* C21: a join that assigns decides on the soldier counts of the state it
\* is taken in, which hold every assignment made before: with several teams
\* it chooses a team below the highest count unless all counts are equal,
\* and it adds the participant to that team and to no other.
C21_JoinIsAtomic ==
    [][(quota'.join < quota.join /\ last'.result = "assigned")
          => LET t == ops[operations].teams
                 after == ops'[operations].teams
                 k == last'.team
             IN  /\ \/ Len(t) = 1
                    \/ \E j \in 1..Len(t) :
                          Cardinality(t[j].soldiers) > Cardinality(t[k].soldiers)
                    \/ \A j \in 1..Len(t) :
                          Cardinality(t[j].soldiers) = Cardinality(t[k].soldiers)
                 /\ after[k].soldiers = t[k].soldiers \cup {last'.author}
                 /\ \A j \in 1..Len(t) : j # k => after[j].soldiers = t[j].soldiers]_vars

\* the second of two joins was assigned to the second team, the first team
\* holding the first one
C21_Witness ==
    /\ last.cmd = "join"
    /\ last.result = "assigned"
    /\ last.team = 2
    /\ Len(ops[last.op].teams) = 2
    /\ Cardinality(Soldiers(last.op, 1)) = 1
    /\ Cardinality(Soldiers(last.op, 2)) = 1

\* C22: no step changes the number of teams of an operation that has teams
\* or the leader of one of them, and no step of disband, refused or run to
\* its end, changes the registry, a team, a soldier set or the blacklist or
\* archives a team.
C22_DisbandChangesNothing ==
    [][/\ \A o \in OpIds :
             ops[o].teams # << >>
                => /\ Len(ops'[o].teams) = Len(ops[o].teams)
                   /\ \A i \in TeamsOf(o) : ops'[o].teams[i].leader = ops[o].teams[i].leader
       /\ (\/ last'.cmd = "disband"
           \/ (mod' # mod /\ (mod.kind = "disband" \/ mod'.kind = "disband")))
             => (operations' = operations /\ ops' = ops)]_vars

\* a leader's disband of their own team, one of two, reached its end
C22_Witness ==
    /\ last.cmd = "disband"
    /\ last.result = "Stubbed"
    /\ Len(ops[last.op].teams) = 2
    /\ last.target \in Leaders(last.op)

\* C23: on an operation whose start has finished, a kick, ban or leave of a
\* member who leads no team and is in no soldier set ends without an
\* internal error and has removed nobody.
C23_NonMemberKickIsSafe ==
    (/\ last.cmd \in Kicks \cup {"leave"}
     /\ last.op # None
     /\ start[last.op].pc = "done"
     /\ last.target \notin Leaders(last.op)
     /\ last.removed = 0
     /\ \A i \in TeamsOf(last.op) : last.target \notin Soldiers(last.op, i))
       => last.result \in {"ok", "InsufficientAuthority", "SelfTargetForbidden"}

\* where a start stands whose operation is registered and not yet active
Pending == {"typing", "confirm", "category", "channels", "staging"}

\* C24: a join, close, kick or ban that returns while the operation it found
\* is still pending was not accepted, changed nothing and did not end in an
\* error of reading the operation's missing teams or staging channel.
C24_PendingIgnoresEvents ==
    (/\ last.cmd \in {"join", "close", "kick", "ban"}
     /\ last.seen # None
     /\ start[last.seen].pc \in Pending)
       => /\ last.result \notin {"KeyError:teams", "KeyError:staging", "KeyError:soldiers"}
          /\ last.result # "assigned"
          /\ ~last.dirty

\* C25: with two or more teams and only joins of participants that are in
\* no team, the soldier counts of two teams never differ by more than 1.
C25_CountsBalanced ==
    (unit.fn = "joins" /\ Len(unit.loads) >= 2)
       => \A i, j \in 1..Len(unit.loads) : unit.loads[i] - unit.loads[j] <= 1

\* five participants have joined three teams
C25_Witness ==
    /\ unit.fn = "joins"
    /\ unit.loads = <<2, 1, 2>>
    /\ unit.team = 3

\* C26: the opset group lets an invoker in exactly when the inline check
\* _requires(ctx, COMMAND) does: never one who is no bot owner and whose top
\* role is below the configured command role.
C26_CommandGate ==
    (unit.fn = "opset" /\ unit.done)
       => /\ unit.allowed = RequiresCommand(unit.author)
          /\ (~IsOwner(unit.author) /\ TopRole[unit.author] < OpCache[COMMAND + 1])
                => ~unit.allowed

\* ------------------------------------------------------------ the cog
Next ==
    \/ \E o \in OpIds : StartEntry(o)
    \/ \E o \in OpIds : StartValidate(o)
    \/ \E o \in OpIds : StartConfirm(o)
    \/ \E o \in OpIds : StartCategory(o)
    \/ \E o \in OpIds : StartChannels(o)
    \/ \E o \in OpIds : StartStaging(o)
    \/ \E o \in OpIds : StartFinish(o)
    \/ \E c \in ManualIds : ManualClose(c)
    \/ \E o \in OpIds : TimerFire(o)
    \/ \E c \in CloserIds : CloseAuth(c)
    \/ \E c \in CloserIds : CloseArchive(c)
    \/ \E c \in CloserIds : CloseRelabel(c)
    \/ ModEntry
    \/ ModSpecial
    \/ ModLoop
    \/ LeaveEntry
    \/ DisbandEntry
    \/ DisbandAuth
    \/ \E m \in Members, toStaging \in BOOLEAN : Join(m, toStaging)

Spec == Init /\ [][Next]_vars

\* ------------------------------------------------------------ the parts on their own
InitUnits ==
    /\ InitCog
    /\ quota = [start |-> 0, close |-> 0, mod |-> 0, join |-> 0]
    /\ unit \in OverlayInputs \cup LogInputs \cup SelectInputs \cup JoinInputs
                 \cup OpsetInputs

NextUnits ==
    \/ ProvisionCategory
    \/ ProvisionStaging
    \/ Log
    \/ Select
    \/ JoinNew
    \/ Opset

Units == InitUnits /\ [][NextUnits]_vars
====
